---- MODULE Spec2Model ----
(***************************************************************************)
(* A model of sshell.c: the tokenizer, the parser with its descriptor      *)
(* wiring, the main loop and the process orchestrator (run_procs), with    *)
(* the shell's and every child's descriptor table.                          *)
(*                                                                         *)
(* A command line is a sequence of one-character strings; a token is a     *)
(* non-empty sequence of characters and <<>> stands for the NULL token.    *)
(* Stage i of the C code (0-based) is procs[i + 1] here.                   *)
(*                                                                         *)
(* What the code leaves undefined is a choice in the model: a token that   *)
(* does not fit its buffer of TOKEN_MAX characters is copied or kills the  *)
(* shell, free(tokens) on an array of the stack returns or kills the       *)
(* shell, and a write past the end of procs[], pids[] or statuses[] lands  *)
(* in the frame behind the array, after which the shell goes on or dies    *)
(* when that frame is used again.  malloc and fork are taken to succeed;   *)
(* pipe() and open() fail when the descriptor table is full, open() also   *)
(* when the file system refuses.  What a program does is fixed by its      *)
(* name: a exits with 0, b with 1, and execvp finds no other program.      *)
(***************************************************************************)
EXTENDS Integers, Sequences, FiniteSets, TLC

\* ---------------------------------------------------------------- constants

ARG_MAX == 16

PROCESS_MAX == 8

TOKEN_MAX == 32

STDIN_FILENO == 0

STDOUT_FILENO == 1

STDERR_FILENO == 2

EXIT_FAILURE == 1

\* ------------------------------------------------------------------- bounds

\* size of a process's descriptor table (the open-file limit)
MaxFd == 24

\* most lines typed in one multi-line session
MaxLines == 2

\* most words of the exhaustively enumerated short command lines
MaxToks == 3

\* most characters of the exhaustively enumerated character strings
MaxChars == 4

\* --------------------------------------------------------------- characters

NUL == "0"

NULL == <<>>

\* value of a field that malloc left uninitialised
GARBAGE == -2

CharAt(s, k) == IF k >= 1 /\ k <= Len(s) THEN s[k] ELSE NUL

\* ---------------------------------------------------------------- tokenizer

RECURSIVE SkipBlanks(_, _)
\* the loop of read_next_token that moves iter to the first non-blank
SkipBlanks(s, k) ==
    IF CharAt(s, k) = " " \/ CharAt(s, k) = "\t" THEN SkipBlanks(s, k + 1) ELSE k

RECURSIVE ArgEnd(_, _)
\* the loop of read_next_token that copies an argument: the index of the
\* first character that does not belong to it
ArgEnd(s, k) ==
    IF CharAt(s, k) # NUL /\ CharAt(s, k) # " " /\ CharAt(s, k) # "\t"
       /\ CharAt(s, k) # "|" /\ CharAt(s, k) # ">"
    THEN ArgEnd(s, k + 1)
    ELSE k

\* read_next_token: the token read from position k and the position after
\* it; ok = FALSE is the NULL return at the string terminator
read_next_token(s, k) ==
    LET j == SkipBlanks(s, k) IN
    IF CharAt(s, j) = NUL THEN [ok |-> FALSE, tok |-> NULL, next |-> j]
    ELSE IF CharAt(s, j) = "|" \/ CharAt(s, j) = ">"
    THEN IF CharAt(s, j + 1) = "&"
         THEN [ok |-> TRUE, tok |-> <<s[j], "&">>, next |-> j + 2]
         ELSE [ok |-> TRUE, tok |-> <<s[j]>>, next |-> j + 1]
    ELSE LET e == ArgEnd(s, j + 1) IN
         [ok |-> TRUE, tok |-> SubSeq(s, j, e - 1), next |-> e]

RECURSIVE ReadTokensFrom(_, _)
\* the while loop of read_tokens
ReadTokensFrom(s, k) ==
    LET r == read_next_token(s, k) IN
    IF r.ok THEN <<r.tok>> \o ReadTokensFrom(s, r.next) ELSE <<>>

\* read_tokens: the token list of a command line (its NULL terminator is the
\* end of the sequence)
read_tokens(cmdline) == ReadTokensFrom(cmdline, 1)

\* read_next_token copies a token and its terminator into token_buf, and
\* strcpy copies them into a block of TOKEN_MAX characters, without a test
\* of the length: a token of TOKEN_MAX characters or more is written past
\* the end of both
TokenOverflow(cmdline) ==
    \E t \in DOMAIN read_tokens(cmdline) : Len(read_tokens(cmdline)[t]) >= TOKEN_MAX

\* the token at position t of a NULL-terminated token list
Tok(toks, t) == IF t >= 1 /\ t <= Len(toks) THEN toks[t] ELSE NULL

is_arg(token) == token # NULL /\ token[1] # ">" /\ token[1] # "|"

is_pipe_token(token) == token # NULL /\ token[1] = "|"

is_out_redirect_token(token) == token # NULL /\ token[1] = ">"

\* (*tok_iter)[1] taken as a bool: the operator token has a second character
RedirectErr(token) == Len(token) > 1

\* ------------------------------------------------------------------ parser

ErrNone == "none"

ErrTooManyArgs == "too many process arguments"

ErrMissingCommand == "missing command"

ErrNoOutputFile == "no output file"

ErrCannotOpen == "cannot open output file"

ErrMislocated == "mislocated output redirection"

RECURSIVE MutReadArgsOffByOne(_, _, _)
\* read_argv with the bound tested one argument too late
MutReadArgsOffByOne(toks, t, argv) ==
    IF is_arg(Tok(toks, t))
    THEN IF Len(argv) = ARG_MAX + 1
         THEN [ok |-> FALSE, err |-> ErrTooManyArgs, argv |-> argv, next |-> t]
         ELSE MutReadArgsOffByOne(toks, t + 1, Append(argv, toks[t]))
    ELSE IF argv = <<>>
         THEN [ok |-> FALSE, err |-> ErrMissingCommand, argv |-> argv, next |-> t]
         ELSE [ok |-> TRUE, err |-> ErrNone, argv |-> argv, next |-> t]

RECURSIVE MutReadArgsNoMissing(_, _, _)
\* read_argv without the test of argv[0]
MutReadArgsNoMissing(toks, t, argv) ==
    IF is_arg(Tok(toks, t))
    THEN IF Len(argv) = ARG_MAX
         THEN [ok |-> FALSE, err |-> ErrTooManyArgs, argv |-> argv, next |-> t]
         ELSE MutReadArgsNoMissing(toks, t + 1, Append(argv, toks[t]))
    ELSE [ok |-> TRUE, err |-> ErrNone, argv |-> argv, next |-> t]

RECURSIVE ReadArgs(_, _, _)
\* the while loop of read_argv, from token t with the arguments read so far
ReadArgs(toks, t, argv) ==
    IF is_arg(Tok(toks, t))
    THEN IF Len(argv) = ARG_MAX
         THEN [ok |-> FALSE, err |-> ErrTooManyArgs, argv |-> argv, next |-> t]
         ELSE ReadArgs(toks, t + 1, Append(argv, toks[t]))
    ELSE IF argv = <<>>
         THEN [ok |-> FALSE, err |-> ErrMissingCommand, argv |-> argv, next |-> t]
         ELSE [ok |-> TRUE, err |-> ErrNone, argv |-> argv, next |-> t]

read_argv(toks, t) == ReadArgs(toks, t, <<>>)

\* ------------------------------------------------------- descriptor tables

Closed == [k |-> "closed", id |-> 0, name |-> <<>>]

Tty == [k |-> "tty", id |-> 0, name |-> <<>>]

PipeRead(p) == [k |-> "r", id |-> p, name |-> <<>>]

PipeWrite(p) == [k |-> "w", id |-> p, name |-> <<>>]

\* an open file; id tells one open() from another of the same path
File(path, id) == [k |-> "file", id |-> id, name |-> path]

Fds == 0 .. (MaxFd - 1)

\* the descriptor table the shell starts with: the three standard streams
StdTable == [n \in Fds |-> IF n <= STDERR_FILENO THEN Tty ELSE Closed]

OpenFds(fdt) == {n \in Fds : fdt[n].k # "closed"}

FreeFds(fdt) == {n \in Fds : fdt[n].k = "closed"}

Lowest(S) == CHOOSE n \in S : \A m \in S : n <= m

\* close(fd): closing a descriptor that is not open (EBADF) changes nothing
close(fdt, fd) == IF fd \in Fds THEN [fdt EXCEPT ![fd] = Closed] ELSE fdt

\* dup2(old, new): new becomes a copy of old; nothing when they are equal
dup2(fdt, old, new) == IF old = new THEN fdt ELSE [fdt EXCEPT ![new] = fdt[old]]

\* ----------------------------------------------------- wiring and parsing

\* a process record as malloc returns it
NewProc == [argv |-> <<>>, fd_in |-> GARBAGE, fd_out |-> GARBAGE, fd_err |-> GARBAGE]

\* pipe(): the two lowest free descriptors, read end first; no pair when
\* fewer than two descriptors are free
PipeFds(fdt) ==
    IF Cardinality(FreeFds(fdt)) < 2 THEN <<>>
    ELSE LET r == Lowest(FreeFds(fdt)) IN <<r, Lowest(FreeFds(fdt) \ {r})>>

\* pipe_procs that never sends the error stream into the pipe
MutPipeProcsNoErr(s, redirect_err) ==
    LET pipe_fds == PipeFds(s.fdt)
        d == Len(s.procs)
    IN  IF pipe_fds = <<>> THEN [s EXCEPT !.fatal = TRUE]
        ELSE [s EXCEPT
                !.fdt = [s.fdt EXCEPT ![pipe_fds[1]] = PipeRead(s.np),
                                      ![pipe_fds[2]] = PipeWrite(s.np)],
                !.np = s.np + 1,
                !.made = s.made \cup {s.np},
                !.procs[d - 1].fd_out = pipe_fds[2],
                !.procs[d - 1].fd_err = STDERR_FILENO,
                !.procs[d].fd_in = pipe_fds[1]]

\* pipe_procs(procs[i - 1], procs[i], redirect_err) on the parse state s,
\* whose last process is dest; a failed pipe() ends the shell
pipe_procs(s, redirect_err) ==
    LET pipe_fds == PipeFds(s.fdt)
        d == Len(s.procs)
    IN  IF pipe_fds = <<>> THEN [s EXCEPT !.fatal = TRUE]
        ELSE [s EXCEPT
                !.fdt = [s.fdt EXCEPT ![pipe_fds[1]] = PipeRead(s.np),
                                      ![pipe_fds[2]] = PipeWrite(s.np)],
                !.np = s.np + 1,
                !.made = s.made \cup {s.np},
                !.procs[d - 1].fd_out = pipe_fds[2],
                !.procs[d - 1].fd_err =
                    IF redirect_err THEN pipe_fds[2] ELSE STDERR_FILENO,
                !.procs[d].fd_in = pipe_fds[1]]

\* redirect_proc_out(procs[i], out_file_path, redirect_err) on the parse
\* state s; openok says whether the file system lets the file be opened
redirect_proc_out(s, out_file_path, redirect_err, openok) ==
    LET i == Len(s.procs) IN
    IF ~openok \/ FreeFds(s.fdt) = {}
    THEN [s EXCEPT !.ret = -1, !.err = ErrCannotOpen]
    ELSE LET fd == Lowest(FreeFds(s.fdt)) IN
         [s EXCEPT
            !.fdt = [s.fdt EXCEPT ![fd] = File(out_file_path, s.np)],
            !.np = s.np + 1,
            !.files = s.files \cup {out_file_path},
            !.opened = Append(s.opened, [path |-> out_file_path, id |-> s.np]),
            !.procs[i].fd_out = fd,
            !.procs[i].fd_err = IF redirect_err THEN fd ELSE STDERR_FILENO]

\* a write to procs[idx] (0-based): outside the array from PROCESS_MAX on
ProcsWrite(oob, idx) == IF idx >= PROCESS_MAX THEN oob \cup {<<"procs", idx>>} ELSE oob

RECURSIVE ParseStages(_, _, _)
\* the while (true) loop of parse_command, from token t
ParseStages(toks, t, s) ==
    LET a == read_argv(toks, t)
        i == Len(s.procs)
        s1 == [s EXCEPT !.procs[i].argv = a.argv, !.next = a.next]
    IN  IF ~a.ok THEN [s1 EXCEPT !.ret = -1, !.err = a.err]
        ELSE IF ~is_pipe_token(Tok(toks, a.next)) THEN s1
        ELSE LET s2 == [s1 EXCEPT !.procs = Append(s1.procs, NewProc),
                                  !.oob = ProcsWrite(s1.oob, i)]
                 s3 == pipe_procs(s2, RedirectErr(toks[a.next]))
             IN  IF s3.fatal THEN s3 ELSE ParseStages(toks, a.next + 1, s3)

\* the end of parse_command: procs[i + 1] = NULL, free(tokens), return 0
ParseEnd(s) == [s EXCEPT !.oob = ProcsWrite(s.oob, Len(s.procs)), !.ret = 0]

\* the part of parse_command after the loop: the output redirection
ParseRedirect(toks, s, openok) ==
    LET i == Len(s.procs)
        tok == Tok(toks, s.next)
        out_file_path == Tok(toks, s.next + 1)
    IN  IF is_out_redirect_token(tok)
        THEN IF out_file_path = NULL
             THEN [s EXCEPT !.ret = -1, !.err = ErrNoOutputFile]
             ELSE LET s2 == redirect_proc_out(s, out_file_path, RedirectErr(tok), openok)
                  IN  IF s2.ret # 0 THEN s2
                      ELSE IF is_pipe_token(Tok(toks, s.next + 2))
                      THEN [s2 EXCEPT !.ret = -1, !.err = ErrMislocated]
                      ELSE ParseEnd(s2)
        ELSE ParseEnd([s EXCEPT !.procs[i].fd_out = STDOUT_FILENO,
                                !.procs[i].fd_err = STDERR_FILENO])

\* parse_command(cmdline, procs) with the shell's descriptor table fdt, the
\* identity np of the next pipe or open file and the files written so far; old is the process
\* list before the call.  The result holds the return value (ret), the
\* message given to error() (err), whether the shell exited (fatal), the new
\* process list, table and files, the pipes made, the paths opened and the
\* writes outside procs[] (oob).
parse_command(cmdline, old, fdt, np, files, openok) ==
    LET toks == read_tokens(cmdline)
        s0 == [procs |-> old, fdt |-> fdt, np |-> np, files |-> files,
               made |-> {}, opened |-> <<>>, oob |-> {},
               err |-> ErrNone, ret |-> 0, fatal |-> FALSE, next |-> 1]
        first == [NewProc EXCEPT !.fd_in = STDIN_FILENO]
    IN  IF Tok(toks, 1) = NULL THEN [s0 EXCEPT !.ret = -1]
        ELSE LET s1 == ParseStages(toks, 1, [s0 EXCEPT !.procs = <<first>>])
             IN  IF s1.fatal \/ s1.ret # 0 THEN s1
                 ELSE ParseRedirect(toks, s1, openok)

\* -------------------------------------------------------- process execution

\* close_nonstd_fds that leaves the input descriptor open
MutCloseKeepsInput(fdt, proc) ==
    LET t2 == IF proc.fd_out # STDOUT_FILENO THEN close(fdt, proc.fd_out) ELSE fdt
    IN  IF proc.fd_err # STDERR_FILENO THEN close(t2, proc.fd_err) ELSE t2

\* close_nonstd_fds(proc) on the descriptor table fdt
close_nonstd_fds(fdt, proc) ==
    LET t1 == IF proc.fd_in # STDIN_FILENO THEN close(fdt, proc.fd_in) ELSE fdt
        t2 == IF proc.fd_out # STDOUT_FILENO THEN close(t1, proc.fd_out) ELSE t1
    IN  IF proc.fd_err # STDERR_FILENO THEN close(t2, proc.fd_err) ELSE t2

RECURSIVE CloseFrom(_, _, _)
\* the child's loop for (j = i + 1; procs[j]; j++) close_nonstd_fds(procs[j]),
\* from the 1-based position j
CloseFrom(fdt, ps, j) ==
    IF j > Len(ps) THEN fdt ELSE CloseFrom(close_nonstd_fds(fdt, ps[j]), ps, j + 1)

\* a child that closes no descriptor of the later stages
MutChildClosesNothing(fdt, ps, i) == fdt

\* what the child of stage i (0-based) closes before exec_proc
ChildCloseOthers(fdt, ps, i) == CloseFrom(fdt, ps, i + 2)

IsOpen(fdt, fd) == fd \in Fds /\ fdt[fd].k # "closed"

\* exec_proc up to execvp: the three dup2 calls, each ending the child when
\* it fails, then close_nonstd_fds(proc)
exec_proc(fdt, proc) ==
    IF ~IsOpen(fdt, proc.fd_in) THEN [ok |-> FALSE, fdt |-> fdt]
    ELSE LET t1 == dup2(fdt, proc.fd_in, STDIN_FILENO) IN
    IF ~IsOpen(t1, proc.fd_out) THEN [ok |-> FALSE, fdt |-> t1]
    ELSE LET t2 == dup2(t1, proc.fd_out, STDOUT_FILENO) IN
    IF ~IsOpen(t2, proc.fd_err) THEN [ok |-> FALSE, fdt |-> t2]
    ELSE LET t3 == dup2(t2, proc.fd_err, STDERR_FILENO) IN
    [ok |-> TRUE, fdt |-> close_nonstd_fds(t3, proc)]

\* the programs execvp finds, and the status each exits with; execvp fails
\* for every other name
Installed == {<<"a">>, <<"b">>}

ProgStatus(name) == IF name = <<"a">> THEN 0 ELSE 1

NoTable == [n \in Fds |-> Closed]

\* --------------------------------------------------------------- the input

RECURSIVE Join(_)
\* the words of a line with one space between them
Join(ws) ==
    IF ws = <<>> THEN <<>>
    ELSE IF Len(ws) = 1 THEN ws[1]
    ELSE ws[1] \o <<" ">> \o Join(Tail(ws))

RECURSIVE Glue(_)
\* the words of a line with nothing between them
Glue(ws) == IF ws = <<>> THEN <<>> ELSE ws[1] \o Glue(Tail(ws))

A == <<"a">>

B == <<"b">>

F == <<"f">>

G == <<"g">>

BAR == <<"|">>

BARAMP == <<"|", "&">>

GT == <<">">>

GTAMP == <<">", "&">>

EXIT == <<"e", "x", "i", "t">>

PWD == <<"p", "w", "d">>

CD == <<"c", "d">>

SLS == <<"s", "l", "s">>

Vocab == {A, B, F, BAR, BARAMP, GT, GTAMP}

\* every line of at most MaxToks words of Vocab
ShortLines == {Join(ws) : ws \in UNION {[1 .. n -> Vocab] : n \in 0 .. MaxToks}}

\* a line of n arguments
ArgLine(n) == Join([k \in 1 .. n |-> A])

\* a pipeline of n stages a|b|a|b..., written without blanks
StageLine(n) ==
    Glue([k \in 1 .. (2 * n - 1) |->
            IF k % 2 = 0 THEN BAR ELSE IF k % 4 = 1 THEN A ELSE B])

\* one argument of n characters
Word(n) == [k \in 1 .. n |-> "a"]

LongLines ==
    {ArgLine(n) : n \in (ARG_MAX - 1) .. (ARG_MAX + 1)}
    \cup {Word(n) : n \in (TOKEN_MAX - 1) .. TOKEN_MAX}
    \cup {StageLine(n) : n \in (PROCESS_MAX - 1) .. (PROCESS_MAX + 1)}
    \cup {ArgLine(ARG_MAX) \o StageLine(2), ArgLine(ARG_MAX + 1) \o StageLine(2),
          Glue(<<B, BAR>>) \o ArgLine(ARG_MAX), Glue(<<B, BAR>>) \o ArgLine(ARG_MAX + 1)}

ShapeLines ==
    {EXIT, PWD, SLS, Join(<<CD, F>>), Join(<<EXIT, BAR, A>>), Join(<<PWD, GT, F>>),
     Join(<<A, BAR, EXIT>>), Join(<<EXIT, A>>),
     Join(<<A, GT, F, BAR, B>>), Join(<<A, BAR, B, GTAMP, F, BARAMP, B>>),
     Join(<<A, GT, F, GT, G>>), Join(<<A, GT, F, B>>), Join(<<A, BAR, B, GT, F>>),
     Join(<<B, BARAMP, A, BAR, B>>), Join(<<B, BAR, B, BAR, A, GTAMP, F>>),
     Join(<<A, BAR, BAR, B>>), Join(<<A, GT, GT, F>>), Join(<<A, BAR, B, BAR>>),
     <<" ", "\t", "b", "\t", "|", "a", " ">>, <<" ", "\t">>}

SessionLines ==
    {Join(<<A, BAR>>), Join(<<A, GT, F, BAR>>), Join(<<A, BAR, B>>),
     Join(<<EXIT, BAR, A>>), Join(<<B, GT, F>>)}

\* what the user may type in one session: one line of any kind, or several
\* lines of SessionLines
Scripts ==
    {<<l>> : l \in ShortLines \cup LongLines \cup ShapeLines}
    \cup UNION {[1 .. n -> SessionLines] : n \in 2 .. MaxLines}

\* --------------------------------------------------------------- the state

VARIABLES
    stdin,      \* the lines the user has still to type
    pc,         \* where the shell is: "prompt", "parse", "dispatch", "fork",
                \* "close", "wait", "complete", "exited", "crashed"
    cmdline,    \* main's cmdline
    procs,      \* main's procs[], up to its NULL terminator
    statuses,   \* main's statuses[], with the memory that follows it
    pids,       \* run_procs's pids[], with the memory that follows it
    i,          \* run_procs's i
    exiting,    \* main's exiting
    fdt,        \* the shell's descriptor table
    np,         \* the identity the next pipe or open file gets
    files,      \* the paths open() has created or truncated
    kids,       \* the children forked for the current line, in fork order
    err,        \* the message of the shell's error() for the current line
    made,       \* the pipes created for the current line
    opened,     \* the files opened for the current line: path and identity
    oob,        \* the writes outside procs[], pids[] and statuses[] so far
                \* in the current line
    printed,    \* the statuses printed for the current line
    ret,        \* what parse_command returned for the current line
    tokens      \* parse_command's tokens[] once read_tokens has returned

vars == <<stdin, pc, cmdline, procs, statuses, pids, i, exiting, fdt, np, files,
          kids, err, made, opened, oob, printed, ret, tokens>>

StatusSlots == 0 .. (PROCESS_MAX + 1)

PidSlots == 0 .. PROCESS_MAX

Init ==
    /\ stdin \in Scripts
    /\ pc = "prompt"
    /\ cmdline = <<>>
    /\ procs = <<>>
    /\ statuses = [k \in StatusSlots |-> GARBAGE]
    /\ pids = [k \in PidSlots |-> GARBAGE]
    /\ i = 0
    /\ exiting = FALSE
    /\ fdt = StdTable
    /\ np = 1
    /\ files = {}
    /\ kids = <<>>
    /\ err = ErrNone
    /\ made = {}
    /\ opened = <<>>
    /\ oob = {}
    /\ printed = <<>>
    /\ ret = GARBAGE
    /\ tokens = <<>>

\* ------------------------------------------------------------ the main loop

\* main, lines 472-492: the prompt, fgets and the removal of the newline.
\* The children of the line before are gone (all were waited for).
ReadLine ==
    /\ pc = "prompt"
    /\ stdin # <<>>
    /\ cmdline' = Head(stdin)
    /\ stdin' = Tail(stdin)
    /\ exiting' = FALSE
    /\ pc' = "parse"
    /\ kids' = <<>>
    /\ err' = ErrNone
    /\ made' = {}
    /\ opened' = <<>>
    /\ oob' = {}
    /\ printed' = <<>>
    /\ ret' = GARBAGE
    /\ tokens' = <<>>
    /\ UNCHANGED <<procs, statuses, pids, i, fdt, np, files>>

\* a main loop that goes on after a failed parse_command
MutAfterParseNoContinue(r, dies) ==
    IF r.fatal THEN "exited" ELSE IF dies THEN "crashed" ELSE "dispatch"

\* main, lines 495-496: where the shell goes after parse_command
AfterParse(r, dies) ==
    IF r.fatal THEN "exited"
    ELSE IF r.ret # 0 THEN "prompt"
    ELSE IF dies THEN "crashed"
    ELSE "dispatch"

\* main, lines 494-496: parse_command and the continue on failure.  A token
\* that overflows its buffer is copied all the same or the shell dies in
\* read_tokens.  A failed pipe() ends the shell.  free(tokens) frees an array
\* that is not on the heap, and the writes past procs[] land in main's
\* frame: the call returns or the shell dies.
ParseLine ==
    /\ pc = "parse"
    /\ \E openok \in BOOLEAN, dies \in BOOLEAN, smash \in BOOLEAN :
         LET r == parse_command(cmdline, procs, fdt, np, files, openok) IN
         /\ smash => TokenOverflow(cmdline)
         /\ IF smash
            THEN /\ pc' = "crashed"
                 /\ UNCHANGED <<procs, fdt, np, files, err, made, opened, oob,
                                ret, tokens>>
            ELSE /\ tokens' = read_tokens(cmdline)
                 /\ procs' = r.procs
                 /\ fdt' = r.fdt
                 /\ np' = r.np
                 /\ files' = r.files
                 /\ err' = r.err
                 /\ made' = r.made
                 /\ opened' = r.opened
                 /\ oob' = r.oob
                 /\ ret' = IF r.fatal THEN GARBAGE ELSE r.ret
                 /\ pc' = AfterParse(r, dies)
    /\ UNCHANGED <<stdin, cmdline, statuses, pids, i, exiting, kids, printed>>

first_arg == procs[1].argv[1]

Builtins == {EXIT, PWD, CD, SLS}

\* main, lines 501-514: the built-in commands; pwd, cd and sls succeed or fail
RunBuiltin ==
    /\ pc = "dispatch"
    /\ first_arg \in Builtins
    /\ \E st \in {0, 1} :
         /\ first_arg = EXIT => st = 0
         /\ statuses' = [statuses EXCEPT ![0] = st, ![1] = -1]
    /\ exiting' = (first_arg = EXIT)
    /\ pc' = "complete"
    /\ UNCHANGED <<stdin, cmdline, procs, pids, i, fdt, np, files, kids, err,
                   made, opened, oob, printed, ret, tokens>>

\* main, line 516, and run_procs, lines 415-416: the call of run_procs
StartRun ==
    /\ pc = "dispatch"
    /\ first_arg \notin Builtins
    /\ pids' = [k \in PidSlots |-> GARBAGE]
    /\ i' = 0
    /\ pc' = "fork"
    /\ UNCHANGED <<stdin, cmdline, procs, statuses, exiting, fdt, np, files, kids,
                   err, made, opened, oob, printed, ret, tokens>>

\* the child fork() makes for stage i: a copy of the shell's table
NewKid == [stage |-> i, st |-> "forked", fdt |-> fdt, status |-> GARBAGE,
           notfound |-> FALSE]

\* run_procs, lines 418-419: fork() for procs[i]
Fork ==
    /\ pc = "fork"
    /\ i < Len(procs)
    /\ kids' = Append(kids, NewKid)
    /\ pc' = "close"
    /\ UNCHANGED <<stdin, cmdline, procs, statuses, pids, i, exiting, fdt, np,
                   files, err, made, opened, oob, printed, ret, tokens>>

\* the writes to pids[idx] and statuses[idx] outside the arrays
PidsWrite(o, idx) == IF idx >= PROCESS_MAX THEN o \cup {<<"pids", idx>>} ELSE o

StatusesWrite(o, idx) == IF idx >= PROCESS_MAX THEN o \cup {<<"statuses", idx>>} ELSE o

\* a parent that keeps the descriptors of the stage it has forked
MutParentClosesNothing(t, proc) == t

\* what the parent closes after the fork of stage i
ParentClose(t, proc) == close_nonstd_fds(t, proc)

\* a run_procs that waits right after each fork
MutWaitsAfterEachFork(n, ps) == "wait"

\* run_procs, line 418: the test while (procs[i]) with i = n: the next fork,
\* or the end of the loop
LoopTest(n, ps) == IF n < Len(ps) THEN "fork" ELSE "wait"

\* run_procs, lines 424-434 and 450: the parent closes the descriptors of the
\* stage it has forked and saves the pid; after the last stage it writes the
\* -1 that ends statuses
AfterFork ==
    /\ pc = "close"
    /\ fdt' = ParentClose(fdt, procs[i + 1])
    /\ pids' = [pids EXCEPT ![i] = Len(kids)]
    /\ i' = i + 1
    /\ IF LoopTest(i + 1, procs) = "fork"
       THEN /\ pc' = "fork"
            /\ statuses' = statuses
            /\ oob' = PidsWrite(oob, i)
       ELSE /\ pc' = "wait"
            /\ statuses' = [statuses EXCEPT ![i + 1] = -1]
            /\ oob' = StatusesWrite(PidsWrite(oob, i), i + 1)
    /\ UNCHANGED <<stdin, cmdline, procs, exiting, np, files, kids, err, made,
                   opened, printed, ret, tokens>>

\* waitpid(-1, ...): whichever child has exited
MutWaitsForAny(k, c) == TRUE

\* the child waitpid(pids[k], ...) waits for
WaitsFor(k, c) == c = pids[k]

\* run_procs, lines 453-457: one turn of while (i--): waitpid returns once
\* the child has exited, and its exit status is stored
Wait ==
    /\ pc = "wait"
    /\ i > 0
    /\ \E c \in 1 .. Len(kids) :
         /\ WaitsFor(i - 1, c)
         /\ kids[c].st = "zombie"
         /\ kids' = [kids EXCEPT ![c].st = "reaped"]
         /\ statuses' = [statuses EXCEPT ![i - 1] = kids[c].status]
    /\ i' = i - 1
    /\ pc' = IF i - 1 = 0 THEN "complete" ELSE "wait"
    /\ UNCHANGED <<stdin, cmdline, procs, pids, exiting, fdt, np, files, err,
                   made, opened, oob, printed, ret, tokens>>

RECURSIVE PrintFrom(_, _)
\* the loop of lines 521-524: the statuses before the first -1
PrintFrom(st, k) ==
    IF k \notin StatusSlots \/ st[k] = -1 THEN <<>>
    ELSE <<st[k]>> \o PrintFrom(st, k + 1)

\* main, lines 519-528: the completion message with the statuses, and the
\* exit of the shell after exit.  When pids[] or statuses[] were written
\* past their end, a frame on the stack is damaged: the shell goes on or dies.
Complete ==
    /\ pc = "complete"
    /\ printed' = PrintFrom(statuses, 0)
    /\ \E dies \in BOOLEAN :
         /\ dies => \E w \in oob : w[1] # "procs"
         /\ pc' = IF dies THEN "crashed" ELSE IF exiting THEN "exited" ELSE "prompt"
    /\ UNCHANGED <<stdin, cmdline, procs, statuses, pids, i, exiting, fdt, np,
                   files, kids, err, made, opened, oob, ret, tokens>>

\* ------------------------------------------------------------- the children

\* a child that goes on after execvp has failed
MutFailedExecGoesOn(kid, dup_ok) == [kid EXCEPT !.st = "running"]

\* exec_proc, lines 390-404: a child whose dup2 or execvp has failed; after
\* a failed execvp (dup_ok) it writes "command not found" to its standard
\* error; it exits with EXIT_FAILURE
FailedExec(kid, dup_ok) ==
    [kid EXCEPT !.st = "zombie", !.fdt = NoTable, !.status = EXIT_FAILURE,
                !.notfound = dup_ok]

\* run_procs, lines 441-444, and exec_proc: the child of stage kids[c].stage
\* closes the descriptors of the later stages, installs its own and calls
\* execvp; it exits with EXIT_FAILURE when a dup2 fails or the program is not
\* found
ChildExec(c) ==
    /\ c \in DOMAIN kids
    /\ kids[c].st = "forked"
    /\ LET stage == kids[c].stage
           proc == procs[stage + 1]
           e == exec_proc(ChildCloseOthers(kids[c].fdt, procs, stage), proc)
       IN  kids' = [kids EXCEPT ![c] =
             IF e.ok /\ proc.argv[1] \in Installed
             THEN [@ EXCEPT !.st = "running", !.fdt = e.fdt]
             ELSE FailedExec(@, e.ok)]
    /\ UNCHANGED <<stdin, pc, cmdline, procs, statuses, pids, i, exiting, fdt, np,
                   files, err, made, opened, oob, printed, ret, tokens>>

\* the program of a stage exits: its descriptors are closed
ChildExit(c) ==
    /\ c \in DOMAIN kids
    /\ kids[c].st = "running"
    /\ kids' = [kids EXCEPT ![c] =
          [@ EXCEPT !.st = "zombie", !.fdt = NoTable,
                    !.status = ProgStatus(procs[kids[c].stage + 1].argv[1])]]
    /\ UNCHANGED <<stdin, pc, cmdline, procs, statuses, pids, i, exiting, fdt, np,
                   files, err, made, opened, oob, printed, ret, tokens>>

Next ==
    \/ ReadLine
    \/ ParseLine
    \/ RunBuiltin
    \/ StartRun
    \/ Fork
    \/ AfterFork
    \/ Wait
    \/ Complete
    \/ \E c \in 1 .. Len(kids) : ChildExec(c)
    \/ \E c \in 1 .. Len(kids) : ChildExit(c)

Spec == Init /\ [][Next]_vars

\* ------------------------------------------- programs that read to the end

ShellAlive == pc \notin {"exited", "crashed"}

\* the processes that hold the write end of pipe p open
Writers(p) ==
    {c \in DOMAIN kids : \E n \in Fds : kids[c].fdt[n] = PipeWrite(p)}
    \cup (IF ShellAlive /\ \E n \in Fds : fdt[n] = PipeWrite(p) THEN {0} ELSE {})

\* a read of the child's standard input returns end-of-file: it is not a
\* pipe, or no process holds the pipe's write end
AtEOF(c) == kids[c].fdt[STDIN_FILENO].k = "r" => Writers(kids[c].fdt[STDIN_FILENO].id) = {}

\* a program that exits once it has read end-of-file on its standard input
ChildExitEOF(c) ==
    /\ c \in DOMAIN kids
    /\ AtEOF(c)
    /\ ChildExit(c)

NextLive ==
    \/ ReadLine
    \/ ParseLine
    \/ RunBuiltin
    \/ StartRun
    \/ Fork
    \/ AfterFork
    \/ Wait
    \/ Complete
    \/ \E c \in 1 .. Len(kids) : ChildExec(c)
    \/ \E c \in 1 .. Len(kids) : ChildExitEOF(c)

KidIds == 1 .. (PROCESS_MAX + 1)

\* the shell never stops between two system calls, and the system runs
\* every child
Fairness ==
    /\ WF_vars(StartRun) /\ WF_vars(Fork) /\ WF_vars(AfterFork) /\ WF_vars(Wait)
    /\ \A c \in KidIds : WF_vars(ChildExec(c)) /\ WF_vars(ChildExitEOF(c))

SpecLive == Init /\ [][NextLive]_vars /\ Fairness

\* ------------------------------------------------ lines of any characters

\* the characters of the tokenizer's cases: the blanks, the operator
\* characters, & and an ordinary character
Alphabet == {" ", "\t", "|", ">", "&", "a"}

\* every string of at most MaxChars characters, and some longer ones with a
\* token at the limit of the token buffer
CharLines ==
    UNION {[1 .. n -> Alphabet] : n \in 0 .. MaxChars}
    \cup {Word(TOKEN_MAX - 1), Word(TOKEN_MAX),
          <<"a", "|", "&">> \o Word(TOKEN_MAX - 1) \o <<">", "&", "a">>,
          <<"a", "\t", "|", "&", " ", " ", "a", "&", ">", "&", "&", "a", " ">>}

\* the shell before its first line, for a user who types one line of
\* CharLines
InitChars ==
    /\ stdin \in {<<l>> : l \in CharLines}
    /\ pc = "prompt"
    /\ cmdline = <<>>
    /\ procs = <<>>
    /\ statuses = [k \in StatusSlots |-> GARBAGE]
    /\ pids = [k \in PidSlots |-> GARBAGE]
    /\ i = 0
    /\ exiting = FALSE
    /\ fdt = StdTable
    /\ np = 1
    /\ files = {}
    /\ kids = <<>>
    /\ err = ErrNone
    /\ made = {}
    /\ opened = <<>>
    /\ oob = {}
    /\ printed = <<>>
    /\ ret = GARBAGE
    /\ tokens = <<>>

\* the shell up to the return of parse_command
NextChars ==
    \/ ReadLine
    \/ ParseLine

SpecChars == InitChars /\ [][NextChars]_vars

\* ------------------------------------------------------------------ claims

Parsed == ret # GARBAGE

\* the tokens of the current line
Toks == read_tokens(cmdline)

\* the child forked for stage j (0-based)
StageKid(j) == CHOOSE c \in DOMAIN kids : kids[c].stage = j

\* run_procs was called for the current line and has forked every stage
AllSpawned == kids # <<>> /\ pc \notin {"fork", "close"}

RECURSIVE RunLen(_, _)
\* the number of consecutive argument tokens from position t
RunLen(toks, t) == IF is_arg(Tok(toks, t)) THEN 1 + RunLen(toks, t + 1) ELSE 0

\* C1: when run_procs waits and when it returns, every status already
\* collected sits at the pipeline position of the child it comes from, in
\* whatever order the children ended; -1 follows the last stage, and the
\* list the shell prints holds exactly one status per stage, in stage order.
C1_StatusesByPosition ==
    (pc \in {"wait", "complete"} /\ kids # <<>>) =>
        /\ Len(kids) = Len(procs)
        /\ statuses[Len(procs)] = -1
        /\ \A j \in i .. (Len(procs) - 1) :
              /\ kids[StageKid(j)].st = "reaped"
              /\ statuses[j] = kids[StageKid(j)].status
        /\ pc = "complete" =>
              PrintFrom(statuses, 0) =
                 [j \in 1 .. Len(procs) |-> kids[StageKid(j - 1)].status]

\* C1 witness: the last stage has ended and its status 1 is stored at its
\* position while the first stage is still running.
C1_Witness ==
    /\ pc = "wait"
    /\ Len(procs) >= 2
    /\ i = Len(procs) - 1
    /\ statuses[i] = 1
    /\ kids[1].st = "running"

\* the pipe between stage j and stage j + 1 of the current line
PipeOf(j) == Lowest(made) + j

\* C2: a child that has called execvp holds an end of a pipe of its
\* pipeline only on its standard streams: the read end of the pipe before
\* its stage on 0, the write end of the pipe after its stage on 1 or 2; and
\* once every stage is forked the shell holds no pipe end and no output file
\* of the pipeline.
C2_DescriptorOwnership ==
    /\ \A c \in DOMAIN kids : kids[c].st = "running" =>
          \A n \in Fds :
             LET o == kids[c].fdt[n] IN
             /\ (o.k = "r" /\ o.id \in made) =>
                   n = STDIN_FILENO /\ o.id = PipeOf(kids[c].stage - 1)
             /\ (o.k = "w" /\ o.id \in made) =>
                   n \in {STDOUT_FILENO, STDERR_FILENO} /\ o.id = PipeOf(kids[c].stage)
    /\ AllSpawned =>
          \A n \in Fds :
             /\ fdt[n].k \in {"r", "w"} => fdt[n].id \notin made
             /\ fdt[n].k = "file" => \A k \in DOMAIN opened : fdt[n].id # opened[k].id

\* C2 witness: the middle stage of a three-stage pipeline runs with its two
\* pipe ends on 0 and 1 after every stage was forked.
C2_Witness ==
    /\ AllSpawned
    /\ Len(procs) = 3
    /\ \E c \in DOMAIN kids :
          /\ kids[c].stage = 1
          /\ kids[c].st = "running"
          /\ kids[c].fdt[STDIN_FILENO] = PipeRead(PipeOf(0))
          /\ kids[c].fdt[STDOUT_FILENO] = PipeWrite(PipeOf(1))

\* C3: when every program exits once it has read end-of-file on its input,
\* a pipeline that run_procs starts is always finished: every stage is
\* forked, every child ends and is waited for, and run_procs returns.  In
\* SpecLive a child that reads from a pipe exits only at end-of-file, so
\* every reader that is waited for has got its end-of-file.
C3_NoPipeDeadlock ==
    (pc = "fork") ~>
        (/\ pc = "complete"
         /\ Len(kids) = Len(procs)
         /\ \A c \in DOMAIN kids : kids[c].st = "reaped")

\* C3 witness: a reader is blocked on a pipe whose writer stage still runs.
C3_Witness ==
    /\ pc = "wait"
    /\ \E c \in DOMAIN kids :
          /\ kids[c].st = "running"
          /\ ~AtEOF(c)
          /\ \E w \in DOMAIN kids : kids[w].st = "running" /\ kids[w].stage = kids[c].stage - 1

\* C4: after parse_command has rejected a line no child exists and the shell
\* is back at its prompt.
C4_RejectedSpawnsNothing == ret = -1 => (kids = <<>> /\ pc = "prompt")

\* C4 witness: a line is rejected after a pipe was made for it.
C4_Witness == ret = -1 /\ err = ErrCannotOpen /\ made # {} /\ pc = "prompt"

\* C5: whenever the shell is at its prompt its open descriptors are the
\* three standard streams.
C5_NoDescriptorLeak == pc = "prompt" => fdt = StdTable

\* C6: the process list never holds more than PROCESS_MAX stages, and no
\* more than PROCESS_MAX children are forked for a line.
C6_AtMostEightStages == Len(procs) <= PROCESS_MAX /\ Len(kids) <= PROCESS_MAX

\* the line's first redirect operator is followed by a file name, and a
\* token follows that file name
TrailsRedirect(toks) ==
    \E t \in DOMAIN toks :
       /\ is_out_redirect_token(toks[t])
       /\ \A u \in 1 .. (t - 1) : ~is_out_redirect_token(toks[u])
       /\ is_arg(Tok(toks, t + 1))
       /\ Len(toks) > t + 1

\* C7: a line in which a token follows the redirection file name is never
\* accepted.
C7_RedirectionIsLast == TrailsRedirect(Toks) => ret # 0

\* the first redirect operator of the line is followed by no argument token
RedirectLacksFile(toks) ==
    \E t \in DOMAIN toks :
       /\ is_out_redirect_token(toks[t])
       /\ \A u \in 1 .. (t - 1) : ~is_out_redirect_token(toks[u])
       /\ ~is_arg(Tok(toks, t + 1))

\* C8: the path that is opened is an argument token, and no file is opened
\* and the line is not accepted when no argument follows the redirect
\* operator.
C8_OutputFileIsArgument ==
    /\ \A k \in DOMAIN opened : is_arg(opened[k].path)
    /\ RedirectLacksFile(Toks) => (opened = <<>> /\ ret # 0)

RECURSIVE EmptyStageFrom(_, _)
\* walking the stages from position t, a stage without arguments comes
\* before any other fault
EmptyStageFrom(toks, t) ==
    LET n == RunLen(toks, t) IN
    IF n = 0 THEN TRUE
    ELSE IF n <= ARG_MAX /\ is_pipe_token(Tok(toks, t + n))
    THEN EmptyStageFrom(toks, t + n + 1)
    ELSE FALSE

\* C9 as claimed: every line with a stage without arguments is rejected with
\* "missing command", and nothing is forked.
C9_EmptyStageIsMissingCommand ==
    (Parsed /\ EmptyStageFrom(Toks, 1)) =>
        (ret = -1 /\ err = ErrMissingCommand /\ kids = <<>>)

\* C9 amended: every line with a stage without arguments is rejected and
\* nothing is forked; the message is "missing command", except that a line
\* without any token is rejected without a message.
C9_EmptyStageRejected ==
    (Parsed /\ EmptyStageFrom(Toks, 1)) =>
        /\ ret = -1
        /\ kids = <<>>
        /\ err = IF Toks = <<>> THEN ErrNone ELSE ErrMissingCommand

\* C9 witness: a line that ends with a pipe operator was rejected with
\* "missing command" after its pipe was made.
C9_Witness ==
    /\ ret = -1
    /\ err = ErrMissingCommand
    /\ Len(Toks) >= 2
    /\ is_pipe_token(Toks[Len(Toks)])
    /\ made # {}

RECURSIVE TooLongFrom(_, _)
\* walking the stages from position t, a stage of more than ARG_MAX
\* arguments comes before any other fault
TooLongFrom(toks, t) ==
    LET n == RunLen(toks, t) IN
    IF n > ARG_MAX THEN TRUE
    ELSE IF n >= 1 /\ is_pipe_token(Tok(toks, t + n))
    THEN TooLongFrom(toks, t + n + 1)
    ELSE FALSE

RECURSIVE AllArgs(_)
\* the argument lists of a process list, one after the other
AllArgs(ps) == IF ps = <<>> THEN <<>> ELSE Head(ps).argv \o AllArgs(Tail(ps))

RECURSIVE StageTokens(_, _)
\* the argument tokens from position t up to the first redirect operator
StageTokens(toks, t) ==
    IF Tok(toks, t) = NULL \/ is_out_redirect_token(Tok(toks, t)) THEN <<>>
    ELSE IF is_arg(toks[t]) THEN <<toks[t]>> \o StageTokens(toks, t + 1)
    ELSE StageTokens(toks, t + 1)

\* C10: every stage of an accepted line has between 1 and ARG_MAX arguments,
\* which are the argument tokens of the line in order, and a line with a
\* stage of more than ARG_MAX arguments is rejected with "too many process
\* arguments".
C10_ArgumentBound ==
    /\ ret = 0 =>
          /\ \A k \in DOMAIN procs :
                Len(procs[k].argv) >= 1 /\ Len(procs[k].argv) <= ARG_MAX
          /\ AllArgs(procs) = StageTokens(Toks, 1)
    /\ (Parsed /\ TooLongFrom(Toks, 1)) =>
          (ret = -1 /\ err = ErrTooManyArgs /\ kids = <<>>)

\* C10 witness: a stage of exactly ARG_MAX arguments was accepted and is run.
C10_Witness ==
    /\ ret = 0
    /\ pc = "fork"
    /\ Len(procs[1].argv) = ARG_MAX
    /\ procs[1].argv = SubSeq(Toks, 1, ARG_MAX)

\* the positions of the pipe operators of a token list
PipePositions(toks) == {t \in DOMAIN toks : is_pipe_token(toks[t])}

\* the position of the n-th pipe operator; 0 before the first and one past
\* the end after the last
PipeAt(toks, n) ==
    IF n = 0 THEN 0
    ELSE IF n > Cardinality(PipePositions(toks)) THEN Len(toks) + 1
    ELSE CHOOSE t \in PipePositions(toks) :
            Cardinality({u \in PipePositions(toks) : u < t}) = n - 1

\* the tokens between the (j - 1)-th and the j-th pipe operator
Group(toks, j) == SubSeq(toks, PipeAt(toks, j - 1) + 1, PipeAt(toks, j) - 1)

\* a line of at most PROCESS_MAX - 1 pipe operators between groups of 1 to
\* ARG_MAX arguments, without a redirect operator
PlainPipeline(toks) ==
    /\ \A t \in DOMAIN toks : ~is_out_redirect_token(toks[t])
    /\ Cardinality(PipePositions(toks)) <= PROCESS_MAX - 1
    /\ \A j \in 1 .. (Cardinality(PipePositions(toks)) + 1) :
          Len(Group(toks, j)) >= 1 /\ Len(Group(toks, j)) <= ARG_MAX

\* C11: a line of k <= 7 pipe operators between groups of 1 to 16 arguments,
\* without redirection, is accepted, and when parse_command has returned the
\* process list has k + 1 stages whose argument lists are the groups in
\* order, k pipes were made, stage 0 reads standard input, stage i writes to
\* the write end of pipe i and stage i + 1 reads from the read end of the
\* same pipe, the error stream of stage i is that write end exactly when the
\* operator was |& and standard error otherwise, and the last stage writes
\* to standard output and standard error.
C11_ParseAndWiring ==
    (Parsed /\ PlainPipeline(tokens)) =>
        /\ ret = 0
        /\ pc = "dispatch" =>
             LET k == Cardinality(PipePositions(tokens)) IN
             /\ Len(procs) = k + 1
             /\ \A j \in 1 .. (k + 1) : procs[j].argv = Group(tokens, j)
             /\ Cardinality(made) = k
             /\ procs[1].fd_in = STDIN_FILENO
             /\ \A j \in 1 .. k :
                   /\ IsOpen(fdt, procs[j].fd_out)
                   /\ IsOpen(fdt, procs[j + 1].fd_in)
                   /\ fdt[procs[j].fd_out] = PipeWrite(PipeOf(j - 1))
                   /\ fdt[procs[j + 1].fd_in] = PipeRead(PipeOf(j - 1))
                   /\ procs[j].fd_err =
                         IF tokens[PipeAt(tokens, j)] = BARAMP
                         THEN procs[j].fd_out ELSE STDERR_FILENO
             /\ procs[k + 1].fd_out = STDOUT_FILENO
             /\ procs[k + 1].fd_err = STDERR_FILENO

\* C11 witness: parse_command has returned for b |& a | b: the error stream
\* of stage 0 is the write end of the first pipe, that of stage 1 is standard
\* error.
C11_Witness ==
    /\ pc = "dispatch"
    /\ PlainPipeline(tokens)
    /\ Len(procs) = 3
    /\ tokens[2] = BARAMP
    /\ procs[1].fd_err = procs[1].fd_out
    /\ fdt[procs[1].fd_err] = PipeWrite(PipeOf(0))
    /\ procs[2].fd_err = STDERR_FILENO

Blank(c) == c = " " \/ c = "\t"

Operator(c) == c = "|" \/ c = ">"

\* the length of the longest prefix of s without a blank and without an
\* operator character
RunOf(s) ==
    CHOOSE n \in 0 .. Len(s) :
       /\ \A k \in 1 .. n : ~Blank(s[k]) /\ ~Operator(s[k])
       /\ n < Len(s) => (Blank(s[n + 1]) \/ Operator(s[n + 1]))

RECURSIVE RefTokens(_)
\* the tokens of a string by the rule of the tokenizer's contract
RefTokens(s) ==
    IF s = <<>> THEN <<>>
    ELSE IF Blank(Head(s)) THEN RefTokens(Tail(s))
    ELSE IF Operator(Head(s))
    THEN IF Len(s) >= 2 /\ s[2] = "&"
         THEN <<SubSeq(s, 1, 2)>> \o RefTokens(SubSeq(s, 3, Len(s)))
         ELSE <<SubSeq(s, 1, 1)>> \o RefTokens(Tail(s))
    ELSE <<SubSeq(s, 1, RunOf(s))>> \o RefTokens(SubSeq(s, RunOf(s) + 1, Len(s)))

\* a token is an operator token or holds no operator character
WellFormed(toks) ==
    \A t \in DOMAIN toks :
       /\ toks[t] # <<>>
       /\ \/ toks[t] \in {BAR, BARAMP, GT, GTAMP}
          \/ \A k \in DOMAIN toks[t] : ~Operator(toks[t][k]) /\ ~Blank(toks[t][k])

\* C12: once the shell is past read_tokens for a line, the token list is the
\* list the rule of the contract gives for that line, every token is
\* non-empty, and a token that is not an operator holds no | and no >.
C12_TokenizerResult ==
    pc # "parse" => (tokens = RefTokens(cmdline) /\ WellFormed(tokens))

\* C12 for the lines whose tokens fit the token buffer: the token list is
\* the list of the rule, and the shell is not killed in read_tokens.
C12_TokensThatFit ==
    (pc # "parse" /\ ~TokenOverflow(cmdline)) =>
        (tokens = RefTokens(cmdline) /\ WellFormed(tokens))

\* a line with |& and >& between arguments was split into its five tokens
C12_FitWitness ==
    /\ pc # "parse"
    /\ Len(tokens) = 5
    /\ tokens[2] = BARAMP
    /\ tokens[4] = GTAMP
    /\ Len(tokens[3]) = TOKEN_MAX - 1

\* execvp finds no program for stage j (0-based) of the current line
Missing(j) == procs[j + 1].argv[1] \notin Installed

\* the status stage j ends with
Expected(j) == IF Missing(j) THEN EXIT_FAILURE ELSE ProgStatus(procs[j + 1].argv[1])

\* run_procs has returned: a child was forked for every stage and has been
\* waited for, and every stage's status is stored at the stage's position
PipelineDone ==
    /\ pc = "complete"
    /\ Len(kids) = Len(procs)
    /\ \A j \in 0 .. (Len(procs) - 1) :
          /\ kids[StageKid(j)].st = "reaped"
          /\ kids[StageKid(j)].notfound = Missing(j)
          /\ statuses[j] = Expected(j)
    /\ statuses[Len(procs)] = -1

\* C13: a failed execvp stays in its child.  A child that has ended has
\* reported "command not found" exactly when execvp finds no program for
\* its stage, and then its status is EXIT_FAILURE, which is not 0, while a
\* child whose program exists ends with the program's status; a pipeline
\* with a stage without program is always finished, with a child forked and
\* waited for per stage and every status at its stage's position; and from
\* there the shell, unless the line's writes went past an array (C19),
\* returns to its prompt for the next line.
C13_ExecFailureIsLocal ==
    /\ [](\A c \in DOMAIN kids :
            kids[c].st \in {"zombie", "reaped"} =>
               /\ kids[c].notfound = Missing(kids[c].stage)
               /\ kids[c].status = Expected(kids[c].stage)
               /\ kids[c].notfound => kids[c].status # 0)
    /\ (pc = "fork" /\ i = 0 /\ \E j \in 0 .. (Len(procs) - 1) : Missing(j))
          ~> (PipelineDone /\ \E c \in DOMAIN kids : kids[c].notfound)
    /\ [][(PipelineDone /\ oob = {} /\ \E c \in DOMAIN kids : kids[c].notfound)
             => (pc' = "prompt" /\ ~exiting' /\ stdin' = stdin)]_vars

\* C13 witness: run_procs has returned for a line whose first program does
\* not exist and whose second program is a: the statuses are 1 and 0.
C13_Witness ==
    /\ PipelineDone
    /\ Len(procs) = 2
    /\ kids[StageKid(0)].notfound
    /\ statuses[0] = EXIT_FAILURE
    /\ ~kids[StageKid(1)].notfound
    /\ statuses[1] = 0

\* the current line is one command without pipe and without redirection
\* whose first argument is the name of a built-in command
LoneBuiltin ==
    /\ tokens # <<>>
    /\ \A t \in DOMAIN tokens : is_arg(tokens[t])
    /\ tokens[1] \in Builtins

\* C14: main handles a line itself, without run_procs, only when the line
\* is one command without pipe and without redirection whose first argument
\* names a built-in command; only such an exit ends the session; and every
\* other accepted line is run by run_procs.
C14_BuiltinOnlyAlone ==
    /\ (pc = "complete" /\ kids = <<>>) => LoneBuiltin
    /\ exiting => LoneBuiltin
    /\ (pc = "complete" /\ ~LoneBuiltin) => Len(kids) = Len(procs)

\* the line is a pipeline of stages of 1 to ARG_MAX arguments, then a
\* redirect operator, a file name and, right after the file name, a pipe
\* operator
RedirectThenPipe(toks) ==
    \E t \in DOMAIN toks :
       /\ is_out_redirect_token(toks[t])
       /\ PlainPipeline(SubSeq(toks, 1, t - 1))
       /\ is_arg(Tok(toks, t + 1))
       /\ is_pipe_token(Tok(toks, t + 2))

\* C15: a line in which a pipe operator follows the redirection file name
\* is rejected with "mislocated output redirection", and nothing is forked
\* for it.
C15_MislocatedRejected ==
    (Parsed /\ RedirectThenPipe(tokens)) =>
        (ret = -1 /\ err = ErrMislocated /\ kids = <<>>)

\* C15 when the file could be opened: the line is rejected with "mislocated
\* output redirection" and nothing is forked for it.
C15_MislocatedAfterOpen ==
    (Parsed /\ RedirectThenPipe(tokens) /\ opened # <<>>) =>
        (ret = -1 /\ err = ErrMislocated /\ kids = <<>>)

\* the descriptors of a process that are not its standard ones
NonStdFds(proc) ==
    ({proc.fd_in} \ {STDIN_FILENO}) \cup ({proc.fd_out} \ {STDOUT_FILENO})
        \cup ({proc.fd_err} \ {STDERR_FILENO})

\* the three descriptors of a process are open in the table t
TripleOpen(t, proc) ==
    IsOpen(t, proc.fd_in) /\ IsOpen(t, proc.fd_out) /\ IsOpen(t, proc.fd_err)

\* C16: while run_procs forks, the shell holds none of the non-standard
\* descriptors of the stages before stage i, and all descriptors of stage i
\* (until it has forked it and closes them) and of the later stages; once it
\* waits it holds none; the step that forks a child forks stage i with a
\* copy of the shell's table, in which the three descriptors of stage i are
\* open, and the shell's next step closes that stage's descriptors; and
\* whenever a descriptor of the shell is closed, the shell has just forked
\* stage i and the descriptor is a non-standard one of stage i.
C16_ParentClosing ==
    /\ [](pc \in {"fork", "close"} =>
            \A j \in 0 .. (Len(procs) - 1) :
               IF j < i
               THEN \A fd \in NonStdFds(procs[j + 1]) : ~IsOpen(fdt, fd)
               ELSE TripleOpen(fdt, procs[j + 1]))
    /\ [](pc = "wait" =>
            \A j \in 0 .. (Len(procs) - 1) :
               \A fd \in NonStdFds(procs[j + 1]) : ~IsOpen(fdt, fd))
    /\ [][Len(kids') = Len(kids) + 1 =>
             /\ pc = "fork" /\ pc' = "close"
             /\ kids'[Len(kids')].stage = i
             /\ kids'[Len(kids')].fdt = fdt
             /\ TripleOpen(fdt, procs[i + 1])]_vars
    /\ [][(pc = "close" /\ pc' # "close") =>
             /\ pc' \in {"fork", "wait"}
             /\ Len(kids') = Len(kids)
             /\ \A fd \in NonStdFds(procs[i + 1]) : ~IsOpen(fdt', fd)]_vars
    /\ [][\A fd \in Fds : (IsOpen(fdt, fd) /\ ~IsOpen(fdt', fd)) =>
             (pc = "close" /\ fd \in NonStdFds(procs[i + 1]))]_vars

\* C16 witness: the shell has forked the middle stage of a three-stage
\* pipeline and not yet closed its descriptors: the child holds both pipe
\* ends of its stage, the shell holds them and those of the last stage, and
\* no longer the write end of the first stage.
C16_Witness ==
    /\ pc = "close"
    /\ i = 1
    /\ Len(procs) = 3
    /\ TripleOpen(kids[2].fdt, procs[2])
    /\ kids[2].fdt[procs[2].fd_in] = PipeRead(PipeOf(0))
    /\ kids[2].fdt[procs[2].fd_out] = PipeWrite(PipeOf(1))
    /\ TripleOpen(fdt, procs[2])
    /\ TripleOpen(fdt, procs[3])
    /\ ~IsOpen(fdt, procs[1].fd_out)

\* the phase of the pipeline of the current line: 1 (Built) from the return
\* of parse_command to the call of run_procs, 2 (Spawning) in the loop that
\* forks, 3 (Running) from the end of that loop to the first return of
\* waitpid, 4 (Collecting) from there to the last, 5 (Done) when run_procs
\* has returned; 0 when the shell has no pipeline
Phase ==
    IF pc = "dispatch" THEN 1
    ELSE IF pc \in {"fork", "close"} THEN 2
    ELSE IF pc = "wait" /\ i = Len(procs) THEN 3
    ELSE IF pc = "wait" THEN 4
    ELSE IF pc = "complete" /\ kids # <<>> THEN 5
    ELSE 0

\* C17: the pipeline of a line goes through its phases forwards, one phase
\* at a time (a pipeline of one stage is done at the first return of
\* waitpid), starts as Built and is left only as Built (a built-in command)
\* or Done; children are forked in the order of the stages; no child is
\* waited for before every stage is forked and the shell has closed the
\* non-standard descriptors of every stage; and the statuses are read up to
\* the sentinel and the process records freed only when the shell has
\* Done, or has handled a built-in command.
C17_PhaseOrder ==
    /\ [][/\ (Phase # 0 /\ Phase' # 0) =>
                \/ Phase' \in {Phase, Phase + 1}
                \/ Phase = 3 /\ Phase' = 5 /\ Len(procs) = 1
          /\ (Phase = 0 /\ Phase' # 0) => Phase' = 1
          /\ (Phase # 0 /\ Phase' = 0) => Phase \in {1, 5}]_vars
    /\ [](\A c \in DOMAIN kids : kids[c].stage = c - 1)
    /\ []((pc = "wait" \/ \E c \in DOMAIN kids : kids[c].st = "reaped") =>
            /\ Len(kids) = Len(procs)
            /\ \A j \in DOMAIN procs :
                  \A fd \in NonStdFds(procs[j]) : ~IsOpen(fdt, fd))
    /\ [][printed' # printed =>
             \/ printed' = <<>> /\ pc = "prompt"
             \/ pc = "complete" /\ (Phase # 5 => first_arg \in Builtins)]_vars

\* C17 witness: the shell collects the statuses of a pipeline of three
\* stages: the last two children have been waited for, the first one still
\* runs.
C17_Witness ==
    /\ Phase = 4
    /\ Len(procs) = 3
    /\ i = 1
    /\ kids[1].st = "running"
    /\ kids[2].st = "reaped"
    /\ kids[3].st = "reaped"

\* C18: for a line that parse_command has rejected no file was opened, that
\* is, created or truncated.
C18_RejectedLeavesFiles == ret = -1 => opened = <<>>

\* C19: every write of the current line into procs[], pids[] and
\* statuses[], the NULL after the last process and the -1 after the last
\* status included, was at an index below PROCESS_MAX.
C19_WritesInBounds == oob = {}

\* C19 for pipelines of fewer than PROCESS_MAX stages: every write into
\* procs[], pids[] and statuses[] was at an index below PROCESS_MAX.
C19_ShortPipelinesInBounds == Len(procs) < PROCESS_MAX => oob = {}

====
